---- MODULE Spec2Model ----
(***************************************************************************)
(* Model of store/displayPreferencesApi.ts: the Vuex module that pulls the *)
(* server's display preferences into the client settings store and pushes *)
(* the client settings back.                                               *)
(*                                                                         *)
(* A JavaScript string is a sequence of one-character strings, so that     *)
(* split, parse and join are computed and not assumed.  A JavaScript value *)
(* is a record [t, v]: t is the runtime type tag, v the payload.           *)
(***************************************************************************)
EXTENDS Integers, Sequences, FiniteSets, TLC

(***************************************************************************)
(* JavaScript values                                                       *)
(***************************************************************************)
JBool(b) == [t |-> "boolean", v |-> b]
JNum(n) == [t |-> "number", v |-> n]
JNaN == [t |-> "NaN", v |-> 0]
JStr(s) == [t |-> "string", v |-> s]
JArr(a) == [t |-> "array", v |-> a]
JNull == [t |-> "null", v |-> 0]
JUndefined == [t |-> "undefined", v |-> 0]
JInfinity == [t |-> "Infinity", v |-> 0]
\* new String(s): the boxed string Object(value) builds from a string
JBoxed(s) == [t |-> "boxed", v |-> s]
\* a plain object {}
JObject == [t |-> "object", v |-> 0]

\* typeof x
typeof(x) ==
  CASE x.t = "boolean" -> "boolean"
    [] x.t \in {"number", "NaN", "Infinity"} -> "number"
    [] x.t = "string" -> "string"
    [] x.t = "undefined" -> "undefined"
    [] OTHER -> "object"

\* Array.isArray(x)
isArray(x) == x.t = "array"

\* ToBoolean(x): the truthiness JavaScript's `if (x)` and Boolean(x) use
Truthy(x) ==
  CASE x.t = "boolean" -> x.v
    [] x.t = "number" -> x.v # 0
    [] x.t = "NaN" -> FALSE
    [] x.t = "string" -> x.v # <<>>
    [] x.t \in {"null", "undefined"} -> FALSE
    [] OTHER -> TRUE

(***************************************************************************)
(* Strings                                                                 *)
(***************************************************************************)
s_true == <<"t", "r", "u", "e">>
s_false == <<"f", "a", "l", "s", "e">>
s_null == <<"n", "u", "l", "l">>
s_undefined == <<"u", "n", "d", "e", "f", "i", "n", "e", "d">>
s_nan == <<"n", "a", "n">>
s_NaN == <<"N", "a", "N">>
s_infinity == <<"i", "n", "f", "i", "n", "i", "t", "y">>
s_Infinity == <<"I", "n", "f", "i", "n", "i", "t", "y">>
s_object ==
  <<"[", "o", "b", "j", "e", "c", "t", " ", "O", "b", "j", "e", "c", "t", "]">>

Digits == <<"0", "1", "2", "3", "4", "5", "6", "7", "8", "9">>
IsDigit(c) == \E i \in 1..10 : Digits[i] = c
DigitVal(c) == (CHOOSE i \in 1..10 : Digits[i] = c) - 1
AllDigits(s) == Len(s) > 0 /\ \A i \in 1..Len(s) : IsDigit(s[i])

RECURSIVE NatToStr(_)
NatToStr(n) ==
  IF n < 10 THEN <<Digits[n + 1]>>
  ELSE NatToStr(n \div 10) \o <<Digits[(n % 10) + 1]>>

\* the decimal rendering `n + ''` of an integer
IntToStr(n) == IF n < 0 THEN <<"-">> \o NatToStr(0 - n) ELSE NatToStr(n)

RECURSIVE StrToNat(_)
StrToNat(s) ==
  IF Len(s) = 1 THEN DigitVal(s[1])
  ELSE 10 * StrToNat(SubSeq(s, 1, Len(s) - 1)) + DigitVal(s[Len(s)])

\* String.prototype.toLowerCase, on the letters the model's strings use
LowerChar(c) ==
  CASE c = "T" -> "t"
    [] c = "F" -> "f"
    [] c = "N" -> "n"
    [] c = "I" -> "i"
    [] c = "O" -> "o"
    [] OTHER -> c
toLowerCase(s) == [i \in 1..Len(s) |-> LowerChar(s[i])]

\* String.prototype.split(','): the pieces between the commas, in order
RECURSIVE split(_)
split(s) ==
  IF \A i \in 1..Len(s) : s[i] # ","
  THEN <<s>>
  ELSE LET i == CHOOSE j \in 1..Len(s) :
                  s[j] = "," /\ \A k \in 1..(j - 1) : s[k] # ","
       IN <<SubSeq(s, 1, i - 1)>> \o split(SubSeq(s, i + 1, Len(s)))

\* Array.prototype.join(','), on an array of strings
RECURSIVE join(_)
join(a) ==
  IF Len(a) = 0 THEN <<>>
  ELSE IF Len(a) = 1 THEN a[1]
  ELSE a[1] \o <<",">> \o join(Tail(a))

(***************************************************************************)
(* Conversions                                                             *)
(***************************************************************************)
\* Boolean(x)
Boolean(x) == JBool(Truthy(x))

\* Number(x).  On a string: "" is 0, an optionally signed run of digits is
\* its value, anything else the model's strings can spell is NaN.
Number(x) ==
  CASE x.t = "string" ->
         LET s == x.v
             body == IF Len(s) > 0 /\ s[1] \in {"-", "+"} THEN Tail(s) ELSE s
         IN IF s = <<>> THEN JNum(0)
            ELSE IF s = s_Infinity THEN JInfinity
            ELSE IF ~AllDigits(body) THEN JNaN
            ELSE IF s[1] = "-" THEN JNum(0 - StrToNat(body))
            ELSE JNum(StrToNat(body))
    [] x.t = "boolean" -> JNum(IF x.v THEN 1 ELSE 0)
    [] x.t = "null" -> JNum(0)
    [] x.t \in {"number", "NaN", "Infinity"} -> x
    [] OTHER -> JNaN

\* `value + ''` for a value that is neither a string nor an array
Concat(x) ==
  CASE x.t = "boolean" -> IF x.v THEN s_true ELSE s_false
    [] x.t = "number" -> IntToStr(x.v)
    [] x.t = "NaN" -> s_NaN
    [] x.t = "Infinity" -> s_Infinity
    [] x.t = "null" -> s_null
    [] x.t = "undefined" -> s_undefined
    [] x.t = "boxed" -> x.v
    [] OTHER -> s_object

\* lodash baseToString: a string is itself, an array is its elements'
\* baseToString joined by commas, anything else is `value + ''`
RECURSIVE baseToString(_)
baseToString(x) ==
  IF x.t = "string" THEN x.v
  ELSE IF isArray(x)
  THEN join([i \in 1..Len(x.v) |-> baseToString(x.v[i])])
  ELSE Concat(x)

\* lodash toString
toStr(x) == IF x.t \in {"null", "undefined"} THEN <<>> ELSE baseToString(x)

\* String(x): as baseToString, but null and undefined array elements are ""
RECURSIVE String(_)
String(x) ==
  IF x.t = "string" THEN x.v
  ELSE IF isArray(x)
  THEN join([i \in 1..Len(x.v) |->
               IF x.v[i].t \in {"null", "undefined"} THEN <<>>
               ELSE String(x.v[i])])
  ELSE Concat(x)

\* Object(x): a string is boxed, null and undefined give {}, an object is itself
Object(x) ==
  CASE x.t = "string" -> JBoxed(x.v)
    [] x.t \in {"null", "undefined"} -> JObject
    [] OTHER -> x

\* JSON number grammar without fraction and exponent: -?(0|[1-9][0-9]*)
IsJsonInt(s) ==
  LET body == IF Len(s) > 0 /\ s[1] = "-" THEN Tail(s) ELSE s
  IN AllDigits(body) /\ (Len(body) = 1 \/ body[1] # "0")

\* JSON.parse of a text without commas, quotes, braces and white space:
\* true, false, null, an integer, [] or [value].  ok = FALSE is SyntaxError.
RECURSIVE JsonParse(_)
JsonParse(s) ==
  IF s = s_true THEN [ok |-> TRUE, val |-> JBool(TRUE)]
  ELSE IF s = s_false THEN [ok |-> TRUE, val |-> JBool(FALSE)]
  ELSE IF s = s_null THEN [ok |-> TRUE, val |-> JNull]
  ELSE IF IsJsonInt(s)
  THEN [ok |-> TRUE,
        val |-> IF s[1] = "-" THEN JNum(0 - StrToNat(Tail(s)))
                ELSE JNum(StrToNat(s))]
  ELSE IF Len(s) >= 2 /\ s[1] = "[" /\ s[Len(s)] = "]"
  THEN LET inner == SubSeq(s, 2, Len(s) - 1)
       IN IF inner = <<>> THEN [ok |-> TRUE, val |-> JArr(<<>>)]
          ELSE LET r == JsonParse(inner)
               IN IF r.ok THEN [ok |-> TRUE, val |-> JArr(<<r.val>>)]
                  ELSE [ok |-> FALSE, val |-> JUndefined]
  ELSE [ok |-> FALSE, val |-> JUndefined]

\* destr's JsonSigRx: /^["{[]|^-?[0-9][0-9.]{0,14}$/
JsonSig(s) ==
  \/ Len(s) > 0 /\ s[1] \in {"\"", "{", "["}
  \/ LET body == IF Len(s) > 0 /\ s[1] = "-" THEN Tail(s) ELSE s
     IN /\ Len(body) \in 1..15
        /\ IsDigit(body[1])
        /\ \A i \in 2..Len(body) : IsDigit(body[i]) \/ body[i] = "."

\* destr(val), val a string: the literals by name (case-insensitively), then
\* JSON.parse when the text looks like JSON, the text itself when it does not
\* or when JSON.parse throws
destr(s) ==
  LET lval == toLowerCase(s)
  IN IF lval = s_true THEN JBool(TRUE)
     ELSE IF lval = s_false THEN JBool(FALSE)
     ELSE IF lval = s_null THEN JNull
     ELSE IF lval = s_nan THEN JNaN
     ELSE IF lval = s_infinity THEN JInfinity
     ELSE IF lval = s_undefined THEN JUndefined
     ELSE IF ~JsonSig(s) THEN JStr(s)
     ELSE LET r == JsonParse(s)
          IN IF r.ok THEN r.val ELSE JStr(s)

(***************************************************************************)
(* Objects: a mapping from property names to values                        *)
(***************************************************************************)
EmptyObject == [k \in {} |-> JUndefined]
\* obj without the properties outside keys
Restrict(obj, keys) == [k \in (DOMAIN obj) \cap keys |-> obj[k]]
\* delete obj[key]
Delete(obj, key) == [k \in (DOMAIN obj) \ {key} |-> obj[k]]
\* Object.assign(target, source)
ObjectAssign(target, source) ==
  [k \in (DOMAIN target) \cup (DOMAIN source) |->
     IF k \in DOMAIN source THEN source[k] ELSE target[k]]
\* obj[key]: undefined when obj has no such property
Get(obj, key) == IF key \in DOMAIN obj THEN obj[key] ELSE JUndefined

(***************************************************************************)
(* The settings store's default state (~/store/settings): darkMode and     *)
(* locale as CustomPreferences declares them, and one key for each other   *)
(* runtime type castResponse tells apart.                                  *)
(***************************************************************************)
settingState ==
  [darkMode |-> JBool(TRUE),
   locale |-> JStr(<<"a", "u", "t", "o">>),
   volume |-> JNum(1),
   subtitles |-> JArr(<<>>),
   theme |-> JNull,
   layout |-> JUndefined,
   custom |-> JObject]

(***************************************************************************)
(* castResponse                                                            *)
(***************************************************************************)
\* One iteration of castResponse's loop: the value stored for a key whose
\* default is stateValue, when the server sent value
castValue(stateValue, value) ==
  IF typeof(stateValue) = "boolean" THEN Boolean(value)
  ELSE IF typeof(stateValue) = "number" THEN Number(value)
  ELSE IF typeof(stateValue) = "object"
  THEN IF isArray(stateValue)
       THEN LET pieces == split(String(value))
            IN JArr([i \in 1..Len(pieces) |-> destr(pieces[i])])
       ELSE IF stateValue = JNull THEN JNull
       ELSE IF stateValue = JUndefined THEN JUndefined
       ELSE Object(value)
  ELSE value

\* Object.entries(result.CustomPrefs) throws TypeError when the document has
\* no CustomPrefs
castThrows(data) == ~data.has

\* castResponse(data), when it does not throw: data itself (result aliases
\* data), every CustomPrefs value replaced by its cast
castResponse(data) ==
  [data EXCEPT !.CustomPrefs =
     [key \in DOMAIN data.CustomPrefs |->
        castValue(Get(settingState, key), data.CustomPrefs[key])]]

\* initState without its loop over the keys
deleteUnknownKeys_keepsAll(prefs) == prefs
\* initState's loop deleting the keys that are not `in settingState()`
deleteUnknownKeys(prefs) == Restrict(prefs, DOMAIN settingState)

(***************************************************************************)
(* pushState's document                                                    *)
(***************************************************************************)
\* if (settings.status) delete settings.status
stripStatus(settings) ==
  IF Truthy(Get(settings, "status")) THEN Delete(settings, "status")
  ELSE settings

\* one iteration of pushState's loop over Object.entries(CustomPrefs)
encodeValue(value) ==
  IF isArray(value) THEN JStr(<<"[">> \o toStr(value) \o <<"]">>)
  ELSE JStr(toStr(value))

\* displayPrefs.CustomPrefs = {}; Object.assign(CustomPrefs, settings); the loop
encodePrefs(settings) ==
  LET prefs == ObjectAssign(EmptyObject, settings)
  IN [key \in DOMAIN prefs |-> encodeValue(prefs[key])]

\* pushState without `displayPrefs.CustomPrefs = {}`: the settings are
\* merged into the fetched CustomPrefs
buildDisplayPrefs_mergesFetched(data, settings) ==
  [data EXCEPT !.has = TRUE,
               !.CustomPrefs = encodePrefs(
                  ObjectAssign(data.CustomPrefs, stripStatus(settings)))]
\* the document pushState hands to updateDisplayPreferences: the fetched
\* document with its CustomPrefs replaced
buildDisplayPrefs(data, settings) ==
  [data EXCEPT !.has = TRUE, !.CustomPrefs = encodePrefs(stripStatus(settings))]

(***************************************************************************)
(* Bounds and the transport's answers                                      *)
(***************************************************************************)
\* calls made in one run; any number of them may overlap
MaxCalls == 2
\* Date.now() ranges over 0..MaxTime
MaxTime == 1
CallIds == 1..MaxCalls

StatusOK == 200
StatusNoContent == 204
\* the statuses getDisplayPreferences answers with
FetchStatuses == {StatusOK, 404}
\* the statuses updateDisplayPreferences answers with
PersistStatuses == {StatusNoContent, StatusOK, 500}

\* a DisplayPreferencesDto: has tells whether it carries CustomPrefs at all
Dto(sortBy, has, prefs) ==
  [Id |-> "usersettings", SortBy |-> sortBy, has |-> has, CustomPrefs |-> prefs]
NoDto == Dto("", FALSE, EmptyObject)
\* the documents the server may hold
RemoteDocs ==
  { Dto("Name", TRUE,
        [darkMode |-> JStr(s_false),
         subtitles |-> JStr(<<"[", "1", ",", "a", ",", "t", "r", "u", "e", "]">>),
         legacyFeature |-> JStr(<<"1">>)]),
    Dto("Date", FALSE, EmptyObject) }

Threw == [threw |-> TRUE, status |-> 0, data |-> NoDto]
Answer(status, data) == [threw |-> FALSE, status |-> status, data |-> data]
\* what awaiting getDisplayPreferences can produce
FetchResponses ==
  {Threw} \cup {Answer(st, NoDto) : st \in FetchStatuses \ {StatusOK}}
          \cup {Answer(StatusOK, d) : d \in RemoteDocs}
\* what awaiting updateDisplayPreferences can produce
PersistResponses == {Threw} \cup {Answer(st, NoDto) : st \in PersistStatuses}

\* the values of the status property Vuex adds to the settings store: one
\* truthy, one falsy
StatusValues == {JStr(<<"o", "k">>), JStr(<<>>)}
\* rootState.settings when the module is registered: the default settings,
\* with or without a status property
InitialSettings ==
  {settingState}
    \cup {ObjectAssign(settingState, [k \in {"status"} |-> x]) : x \in StatusValues}

(***************************************************************************)
(* State                                                                   *)
(***************************************************************************)
VARIABLES
  loggedIn,   \* this.$auth.loggedIn
  now,        \* what Date.now() returns
  state,      \* DisplayPreferencesApiState
  settings,   \* rootState.settings
  calls,      \* the action calls made so far, in the order they were made
  coerce      \* one run of the conversions alone, outside any call

vars == <<loggedIn, now, state, settings, calls, coerce>>

defaultState == [syncing |-> FALSE, LastSync |-> -1, LastSettingChange |-> -1]

\* the own enumerable properties of the function object defaultState, which is
\* what RESET_STATE hands to Object.assign: a function has none
defaultStateProperties == EmptyObject

RESET_STATE(st) == ObjectAssign(st, defaultStateProperties)
\* SYNCING_STARTED forgetting the flag
SYNCING_STARTED_noFlag(st) == st
SYNCING_STARTED(st) == [st EXCEPT !.syncing = TRUE]
\* SYNCING_ENDED forgetting the flag
SYNCING_ENDED_keepsSyncing(st) == [st EXCEPT !.LastSync = now]
\* SYNCING_ENDED forgetting the timestamp
SYNCING_ENDED_noTimestamp(st) == [st EXCEPT !.syncing = FALSE]
SYNCING_ENDED(st) == [st EXCEPT !.syncing = FALSE, !.LastSync = now]
\* UPDATE_CLIENT_SETTINGS writing the other timestamp
UPDATE_CLIENT_SETTINGS_wrongField(st) == [st EXCEPT !.LastSync = now]
UPDATE_CLIENT_SETTINGS(st) == [st EXCEPT !.LastSettingChange = now]

\* settings/INIT_STATE: merges the payload into the settings store
INIT_STATE(st, data) == ObjectAssign(st, data)

\* a call not made yet
NoCall ==
  [kind |-> "none", pc |-> "idle", auth |-> FALSE, started |-> FALSE,
   fetches |-> 0, persists |-> 0, fetchRes |-> "none", persistRes |-> "none",
   notes |-> <<>>, resp |-> NoDto, data |-> NoDto, inited |-> FALSE,
   called |-> EmptyObject]

\* no run of the conversions alone
NoCoerce ==
  [pc |-> "off", from |-> "none", client |-> EmptyObject,
   remote |-> EmptyObject, passed |-> EmptyObject, decoded |-> EmptyObject]

Init ==
  /\ coerce = NoCoerce
  /\ loggedIn \in BOOLEAN
  /\ now = 0
  /\ state = defaultState
  /\ settings \in InitialSettings
  /\ calls = [c \in CallIds |-> NoCall]

\* no action is in the middle of its synchronous part
Quiet == \A c \in CallIds : calls[c].pc # "dispatch"
\* call c is the next one to be made
CanCall(c) ==
  /\ Quiet
  /\ calls[c].pc = "idle"
  /\ c > 1 => calls[c - 1].pc # "idle"

\* a call that returned before the latest call was made or returned: what it
\* did is no longer recorded
Retired == [NoCall EXCEPT !.pc = "retired"]
\* calls with call c replaced by call, the calls that returned earlier retired
Record(c, call) ==
  [d \in CallIds |->
     IF d = c THEN call
     ELSE IF calls[d].pc = "done" THEN Retired
     ELSE calls[d]]

\* how the outcome of an awaited request is recorded: the await threw, the
\* status was the one the handler expects, or it was another one
Outcome(response, expected) ==
  IF response.threw THEN "throw"
  ELSE IF response.status = expected THEN "ok"
  ELSE "other"

\* a dispatch that sends nothing
pushSnackbarMessage_silent(call, key) == call
\* dispatch('snackbar/pushSnackbarMessage', {message: $i18n.t(key), ...})
pushSnackbarMessage(call, key) == [call EXCEPT !.notes = Append(@, key)]

(***************************************************************************)
(* initState                                                               *)
(***************************************************************************)
\* the handlers without their guard
authenticated_always == TRUE
\* if (this.$auth.loggedIn)
authenticated == loggedIn

\* the handlers without the check of the fetch status
fetchFailed_throwOnly(response) == response.threw
\* the await of getDisplayPreferences throws, or the status check does
fetchFailed(response) == response.threw \/ response.status # StatusOK

\* pushState without the check of the persist status
persistFailed_throwOnly(response) == response.threw
\* the await of updateDisplayPreferences throws, or the status check does
persistFailed(response) == response.threw \/ response.status # StatusNoContent

\* initState up to its first await: the guard, SYNCING_STARTED, the request
initState(c) ==
  /\ CanCall(c)
  /\ IF authenticated
     THEN /\ state' = SYNCING_STARTED(state)
          /\ calls' = Record(c,
               [calls[c] EXCEPT !.kind = "initState", !.pc = "awaitFetch",
                                !.auth = TRUE, !.started = TRUE,
                                !.fetches = @ + 1])
     ELSE /\ state' = state
          /\ calls' = Record(c,
               [calls[c] EXCEPT !.kind = "initState", !.pc = "done"])
  /\ UNCHANGED <<loggedIn, now, settings, coerce>>

\* initState from the answer of getDisplayPreferences to its end: the status
\* check, castResponse, the key filter, settings/INIT_STATE, the catch block
\* and SYNCING_ENDED.  Where castResponse has returned, data.CustomPrefs is an
\* object, so `if (data.CustomPrefs)` is taken.
initStateFetched(c, response) ==
  /\ Quiet
  /\ calls[c].kind = "initState"
  /\ calls[c].pc = "awaitFetch"
  /\ LET got == [calls[c] EXCEPT !.fetchRes = Outcome(response, StatusOK),
                                 !.resp = response.data,
                                 !.data = response.data,
                                 !.pc = "done"]
     IN IF fetchFailed(response) \/ castThrows(response.data)
        THEN /\ calls' = Record(c,
                  pushSnackbarMessage(got, "failedRetrievingDisplayPreferences"))
             /\ settings' = settings
        ELSE LET data == castResponse(response.data)
                 kept == [data EXCEPT !.CustomPrefs = deleteUnknownKeys(@)]
             IN /\ calls' = Record(c,
                     [got EXCEPT !.data = kept, !.inited = TRUE])
                /\ settings' = INIT_STATE(settings, kept.CustomPrefs)
  /\ state' = SYNCING_ENDED(state)
  /\ UNCHANGED <<loggedIn, now, coerce>>

(***************************************************************************)
(* pushState, updateSettings, resetState                                   *)
(***************************************************************************)
\* pushState up to its first await, for the call c of the given kind
pushStateBegin(c, kind) ==
  IF authenticated
  THEN /\ state' = SYNCING_STARTED(state)
       /\ calls' = Record(c,
            [calls[c] EXCEPT !.kind = kind, !.pc = "awaitFetch",
                             !.auth = TRUE, !.started = TRUE,
                             !.fetches = @ + 1])
  ELSE /\ state' = state
       /\ calls' = Record(c, [calls[c] EXCEPT !.kind = kind, !.pc = "done"])

pushState(c) ==
  /\ CanCall(c)
  /\ pushStateBegin(c, "pushState")
  /\ UNCHANGED <<loggedIn, now, settings, coerce>>

\* updateSettings: commit('UPDATE_CLIENT_SETTINGS'), before the dispatch.
\* The settings store the call was made with is kept in `called`, which no
\* action reads.
updateSettings(c) ==
  /\ CanCall(c)
  /\ state' = UPDATE_CLIENT_SETTINGS(state)
  /\ calls' = Record(c,
       [calls[c] EXCEPT !.kind = "updateSettings", !.pc = "dispatch",
                        !.called = settings])
  /\ UNCHANGED <<loggedIn, now, settings, coerce>>

\* updateSettings: dispatch('pushState'), which runs pushState to its first
\* await before anything else can run
dispatchPushState(c) ==
  /\ calls[c].pc = "dispatch"
  /\ pushStateBegin(c, "updateSettings")
  /\ UNCHANGED <<loggedIn, now, settings, coerce>>

\* pushState from the answer of getDisplayPreferences: the status check, then
\* the document is built and updateDisplayPreferences requested, or the catch
\* block and SYNCING_ENDED
pushStateFetched(c, response) ==
  /\ Quiet
  /\ calls[c].kind \in {"pushState", "updateSettings"}
  /\ calls[c].pc = "awaitFetch"
  /\ LET got == [calls[c] EXCEPT !.fetchRes = Outcome(response, StatusOK),
                                 !.resp = response.data,
                                 !.data = response.data]
     IN IF fetchFailed(response)
        THEN /\ calls' = Record(c,
                  [pushSnackbarMessage(got, "failedSettingDisplayPreferences")
                     EXCEPT !.pc = "done"])
             /\ settings' = settings
             /\ state' = SYNCING_ENDED(state)
        ELSE /\ calls' = [calls EXCEPT ![c] =
                  [got EXCEPT !.data = buildDisplayPrefs(response.data, settings),
                              !.persists = @ + 1,
                              !.pc = "awaitPersist"]]
             /\ settings' = stripStatus(settings)
             /\ state' = state
  /\ UNCHANGED <<loggedIn, now, coerce>>

\* pushState from the answer of updateDisplayPreferences to its end
pushStatePersisted(c, response) ==
  /\ Quiet
  /\ calls[c].pc = "awaitPersist"
  /\ LET got == [calls[c] EXCEPT !.persistRes = Outcome(response, StatusNoContent),
                                 !.pc = "done"]
     IN calls' = Record(c,
          IF persistFailed(response)
          THEN pushSnackbarMessage(got, "failedSettingDisplayPreferences")
          ELSE got)
  /\ state' = SYNCING_ENDED(state)
  /\ UNCHANGED <<loggedIn, now, settings, coerce>>

resetState(c) ==
  /\ CanCall(c)
  /\ state' = RESET_STATE(state)
  /\ calls' = Record(c, [calls[c] EXCEPT !.kind = "resetState", !.pc = "done"])
  /\ UNCHANGED <<loggedIn, now, settings, coerce>>

(***************************************************************************)
(* What the module does not control                                        *)
(***************************************************************************)
\* the user logs in
login ==
  /\ Quiet
  /\ ~loggedIn
  /\ loggedIn' = TRUE
  /\ UNCHANGED <<now, state, settings, calls, coerce>>

\* the user logs out
logout ==
  /\ Quiet
  /\ loggedIn
  /\ loggedIn' = FALSE
  /\ UNCHANGED <<now, state, settings, calls, coerce>>

\* time passes
tick ==
  /\ Quiet
  /\ now < MaxTime
  /\ now' = now + 1
  /\ UNCHANGED <<loggedIn, state, settings, calls, coerce>>

Next ==
  \/ \E c \in CallIds : initState(c)
  \/ \E c \in CallIds, r \in FetchResponses : initStateFetched(c, r)
  \/ \E c \in CallIds : pushState(c)
  \/ \E c \in CallIds : updateSettings(c)
  \/ \E c \in CallIds : dispatchPushState(c)
  \/ \E c \in CallIds, r \in FetchResponses : pushStateFetched(c, r)
  \/ \E c \in CallIds, r \in PersistResponses : pushStatePersisted(c, r)
  \/ \E c \in CallIds : resetState(c)
  \/ login
  \/ logout
  \/ tick

Spec == Init /\ [][Next]_vars

(***************************************************************************)
(* The conversions alone: what pushState writes into CustomPrefs for given *)
(* client settings, and what initState hands to settings/INIT_STATE for    *)
(* given remote CustomPrefs.                                               *)
(***************************************************************************)
\* sequences given as client values have at most MaxLen elements
MaxLen == 2
\* numbers given as client values range over -1..MaxNum
MaxNum == 11
\* remote CustomPrefs given to the decoding have at most MaxKeys keys
MaxKeys == 2

Literals == {JNum(1), JStr(<<"a">>), JBool(TRUE)}
\* the client values of a key, by the runtime type of its default
ClientValues(key) ==
  IF typeof(settingState[key]) = "boolean" THEN {JBool(b) : b \in BOOLEAN}
  ELSE IF typeof(settingState[key]) = "number"
  THEN {JNum(n) : n \in -1..MaxNum}
  ELSE IF isArray(settingState[key])
  THEN {JArr(a) : a \in UNION {[1..n -> Literals] : n \in 0..MaxLen}}
  ELSE {}
TypedKeys == {key \in DOMAIN settingState : ClientValues(key) # {}}
\* the client settings made of booleans, numbers and sequences of literals
ClientInputs ==
  UNION { {x \in [keys -> UNION {ClientValues(k) : k \in keys}] :
             \A k \in keys : x[k] \in ClientValues(k)} :
          keys \in SUBSET TypedKeys }

RemoteKeys == (DOMAIN settingState) \cup {"legacyFeature"}
RemoteStrings ==
  { s_true, s_false, <<>>, <<"1", "2">>, <<"a">>,
    <<"[", "1", ",", "a", ",", "t", "r", "u", "e", "]">> }
\* the CustomPrefs a server may send
RemoteInputs ==
  UNION { [keys -> {JStr(str) : str \in RemoteStrings}] :
          keys \in {ks \in SUBSET RemoteKeys : Cardinality(ks) <= MaxKeys} }

InitCoerce ==
  /\ loggedIn = FALSE
  /\ now = 0
  /\ state = defaultState
  /\ settings = settingState
  /\ calls = [c \in CallIds |-> NoCall]
  /\ \/ \E x \in ClientInputs :
          coerce = [NoCoerce EXCEPT !.pc = "client", !.from = "client",
                                    !.client = x]
     \/ \E r \in RemoteInputs :
          coerce = [NoCoerce EXCEPT !.pc = "remote", !.from = "remote",
                                    !.remote = r]

\* the CustomPrefs pushState sends for the client settings
encode ==
  /\ coerce.pc = "client"
  /\ coerce' = [coerce EXCEPT
       !.pc = "remote",
       !.remote = buildDisplayPrefs(NoDto, coerce.client).CustomPrefs]
  /\ UNCHANGED <<loggedIn, now, state, settings, calls>>

\* the payload initState commits for the remote CustomPrefs.  remote keeps
\* the CustomPrefs as they were received; passed is the CustomPrefs of the
\* document handed to castResponse as they are afterwards: `result = data`
\* makes the result and that document one object, so what castResponse
\* assigns and what the key filter deletes is assigned and deleted there.
decode ==
  /\ coerce.pc = "remote"
  /\ LET data == castResponse(Dto("", TRUE, coerce.remote))
         kept == deleteUnknownKeys(data.CustomPrefs)
     IN coerce' = [coerce EXCEPT !.pc = "decoded",
                                 !.passed = kept,
                                 !.decoded = kept]
  /\ UNCHANGED <<loggedIn, now, state, settings, calls>>

NextCoerce == encode \/ decode

SpecCoerce == InitCoerce /\ [][NextCoerce]_vars

(***************************************************************************)
(* Properties                                                              *)
(***************************************************************************)
\* call c acts in this step
Step(c) == calls'[c] # calls[c] /\ calls'[c] # Retired
\* call c returns in this step
Returns(c) == Step(c) /\ calls'[c].pc = "done"
\* this step is initState or pushState being called as call c, directly or
\* by updateSettings' dispatch
PullOrPushCalled(c) ==
  /\ Step(c)
  /\ \/ calls[c].pc = "idle" /\ calls'[c].kind \in {"initState", "pushState"}
     \/ calls[c].pc = "dispatch"
IsPush(call) == call.kind \in {"pushState", "updateSettings"}

\* C1: in the state in which an authenticated initState or pushState call
\* returns, whatever the transport answered, syncing is false.
C1_SyncingFalseWhenCallReturns ==
  [][\A c \in CallIds : (Returns(c) /\ calls'[c].auth) => ~state'.syncing]_vars

\* a push whose persist request threw has returned while another call still
\* awaits its fetch, and syncing is false
C1_Witness ==
  \E c, d \in CallIds :
    /\ calls[c].pc = "done" /\ IsPush(calls[c]) /\ calls[c].persistRes = "throw"
    /\ calls[d].pc = "awaitFetch"
    /\ ~state.syncing

\* C2: initState or pushState called while loggedIn is false returns at once
\* and changes nothing: the sync tracker and the settings store keep their
\* values, the call issues no request and sends no notification, and no other
\* call's requests or notifications change.
C2_UnauthenticatedCallChangesNothing ==
  [][\A c \in CallIds :
       (PullOrPushCalled(c) /\ ~loggedIn) =>
         /\ state' = state
         /\ settings' = settings
         /\ calls'[c].pc = "done"
         /\ calls'[c].fetches = 0 /\ calls'[c].persists = 0
         /\ calls'[c].notes = <<>>
         /\ \A d \in CallIds \ {c} : calls'[d] \in {calls[d], Retired}]_vars

\* an unauthenticated initState has returned while an earlier call is still
\* in flight: syncing is still true
C2_Witness ==
  \E c, d \in CallIds :
    /\ calls[c].pc = "done" /\ calls[c].kind = "initState" /\ ~calls[c].auth
    /\ calls[c].fetches = 0
    /\ calls[d].pc = "awaitFetch"
    /\ state.syncing

\* C3: a push has issued a persist request only if it issued a fetch request
\* before and got status 200 for it; a push whose fetch got another status
\* or threw has issued no persist request.
C3_PersistOnlyAfterFetchOk ==
  \A c \in CallIds :
    /\ calls[c].persists > 0 =>
         calls[c].persists = 1 /\ calls[c].fetches = 1 /\ calls[c].fetchRes = "ok"
    /\ calls[c].fetchRes \in {"other", "throw"} => calls[c].persists = 0

\* a push awaits the answer to the persist request it issued after its fetch
C3_Witness ==
  \E c \in CallIds :
    /\ IsPush(calls[c]) /\ calls[c].pc = "awaitPersist"
    /\ calls[c].persists = 1 /\ calls[c].fetchRes = "ok"

\* C4: the step in which updateSettings is called sets LastSettingChange to
\* the current time, which is at least its value before, and neither sets
\* syncing nor issues a request; no later step of that call, nor any step of
\* another pull or push, changes LastSettingChange, whether the push
\* succeeds, fails or is skipped.
C4_LastSettingChangeSetFirstAndKept ==
  [][\A c \in CallIds :
       (Step(c) /\ calls'[c].kind # "resetState") =>
         IF calls[c].pc = "idle" /\ calls'[c].kind = "updateSettings"
         THEN /\ state'.LastSettingChange = now
              /\ state'.LastSettingChange >= state.LastSettingChange
              /\ state'.syncing = state.syncing
              /\ ~calls'[c].started
              /\ calls'[c].fetches = 0 /\ calls'[c].persists = 0
         ELSE state'.LastSettingChange = state.LastSettingChange]_vars

\* an updateSettings call made after time has passed has returned with its
\* push failed, and LastSettingChange holds the time of the call
C4_Witness ==
  \E c \in CallIds :
    /\ calls[c].kind = "updateSettings" /\ calls[c].pc = "done"
    /\ calls[c].auth /\ calls[c].fetchRes = "throw"
    /\ state.LastSettingChange > 0

\* the operation of a returned call failed: a request threw or got the wrong
\* status, or castResponse threw on the fetched document
Failed(call) ==
  IF call.kind = "initState"
  THEN call.fetchRes # "ok" \/ castThrows(call.resp)
  ELSE call.fetchRes # "ok" \/ call.persistRes # "ok"
ErrorMessage(call) ==
  IF call.kind = "initState" THEN "failedRetrievingDisplayPreferences"
  ELSE "failedSettingDisplayPreferences"

\* C5: a returned authenticated call has sent exactly one notification, the
\* one of its operation, when the operation failed (a request threw or got
\* the wrong status, or decoding threw) and none when it succeeded; a call
\* that has not returned, and a skipped one, has sent none.
C5_OneNotificationIffFailed ==
  \A c \in CallIds :
    IF calls[c].pc = "done" /\ calls[c].auth
    THEN calls[c].notes =
           IF Failed(calls[c]) THEN <<ErrorMessage(calls[c])>> ELSE <<>>
    ELSE calls[c].notes = <<>>

\* a pull whose fetch got status 200 and a document without CustomPrefs has
\* returned, with its one notification
C5_Witness ==
  \E c \in CallIds :
    /\ calls[c].pc = "done" /\ calls[c].kind = "initState"
    /\ calls[c].fetchRes = "ok" /\ ~calls[c].resp.has
    /\ calls[c].notes = <<"failedRetrievingDisplayPreferences">>

\* C6: when resetState has returned, from whatever state it was called in,
\* the sync tracker is at its defaults: syncing false, LastSync -1,
\* LastSettingChange -1.
C6_ResetStateRestoresDefaults ==
  \A c \in CallIds :
    (calls[c].kind = "resetState" /\ calls[c].pc = "done") =>
      state = defaultState

\* C7 as claimed: no step of a push changes LastSync.
C7_PushKeepsLastSync ==
  [][\A c \in CallIds :
       (Step(c) /\ IsPush(calls'[c])) => state'.LastSync = state.LastSync]_vars

\* C7 as amended: a step of a pull or of a push sets LastSync to the current
\* time when it is the return of an authenticated call, succeeded or failed,
\* and leaves LastSync unchanged otherwise.
C7_LastSyncSetWhenCallReturns ==
  [][\A c \in CallIds :
       (Step(c) /\ calls'[c].kind # "resetState") =>
         state'.LastSync =
           IF Returns(c) /\ calls'[c].auth THEN now ELSE state.LastSync]_vars

\* a push that succeeded after time had passed has returned, and LastSync is
\* the time of its return
C7_Witness ==
  \E c \in CallIds :
    /\ calls[c].pc = "done" /\ IsPush(calls[c]) /\ calls[c].persistRes = "ok"
    /\ now > 0
    /\ state.LastSync = now

C9_BooleanDecoded ==
  coerce.pc = "decoded" =>
    \A key \in DOMAIN coerce.remote :
      typeof(Get(settingState, key)) = "boolean" =>
        /\ coerce.remote[key] = JStr(s_false) => coerce.decoded[key] = JBool(FALSE)
        /\ coerce.remote[key] = JStr(s_true) => coerce.decoded[key] = JBool(TRUE)

\* C10: encoding client settings made of booleans, numbers and sequences of
\* literals and decoding the result gives the settings back.
C10_RoundTrip ==
  (coerce.pc = "decoded" /\ coerce.from = "client") =>
    coerce.decoded = coerce.client

\* C11: for a key whose default is a sequence, decoding "[1,a,true]" gives
\* the sequence of the number 1, the string "a" and the boolean true.
C11_SequenceDecoded ==
  coerce.pc = "decoded" =>
    \A key \in DOMAIN coerce.remote :
      (isArray(Get(settingState, key)) /\ coerce.remote[key] =
           JStr(<<"[", "1", ",", "a", ",", "t", "r", "u", "e", "]">>)) =>
        coerce.decoded[key] = JArr(<<JNum(1), JStr(<<"a">>), JBool(TRUE)>>)

\* C12: the CustomPrefs of a document a push has sent to
\* updateDisplayPreferences do not have the key status, whatever the status
\* property of the settings store was.
C12_StatusNeverPersisted ==
  \A c \in CallIds :
    calls[c].persists > 0 => "status" \notin DOMAIN calls[c].data.CustomPrefs

\* C13: in the step in which a push sends its document to
\* updateDisplayPreferences, every field of the document other than
\* CustomPrefs has the value that was fetched, and CustomPrefs is the encoding
\* of the settings store as the push leaves it: its keys are the keys of the
\* store, which are the keys the store had before but for status, its values
\* the encoded values of the store, and no key is one that only the fetched
\* CustomPrefs had.
C13_PushSendsFetchedFieldsAndSettings ==
  [][\A c \in CallIds :
       (Step(c) /\ calls'[c].pc = "awaitPersist") =>
         LET sent == calls'[c].data
             fetched == calls'[c].resp
         IN /\ sent.Id = fetched.Id
            /\ sent.SortBy = fetched.SortBy
            /\ DOMAIN sent.CustomPrefs = DOMAIN settings'
            /\ (DOMAIN settings) \ {"status"} \subseteq DOMAIN sent.CustomPrefs
            /\ DOMAIN sent.CustomPrefs \subseteq DOMAIN settings
            /\ \A key \in DOMAIN sent.CustomPrefs :
                 /\ sent.CustomPrefs[key] = encodeValue(settings'[key])
                 /\ settings'[key] = settings[key]]_vars

\* a push has sent its document after fetching one sorted by name that had
\* the key legacyFeature: the document sent is sorted by name, has the keys
\* of the settings store, not legacyFeature, and the default settings encoded
C13_Witness ==
  \E c \in CallIds :
    /\ IsPush(calls[c]) /\ calls[c].pc = "awaitPersist"
    /\ "legacyFeature" \in DOMAIN calls[c].resp.CustomPrefs
    /\ calls[c].data.SortBy = "Name"
    /\ DOMAIN calls[c].data.CustomPrefs = DOMAIN settings
    /\ calls[c].data.CustomPrefs["darkMode"] = JStr(s_true)
    /\ calls[c].data.CustomPrefs["subtitles"] = JStr(<<"[", "]">>)
    /\ calls[c].data.CustomPrefs["volume"] = JStr(<<"1">>)

\* C14: the step in which a pull gets the answer of a fetch that threw or had
\* a status other than 200 leaves the settings store unchanged, does not
\* commit settings/INIT_STATE, sends the one notification
\* failedRetrievingDisplayPreferences, and is the return of the pull, with
\* syncing false and LastSync the current time.
C14_FailedFetchOfPull ==
  [][\A c \in CallIds :
       (Step(c) /\ calls'[c].kind = "initState"
                /\ calls'[c].fetchRes \in {"other", "throw"}) =>
         /\ settings' = settings
         /\ ~calls'[c].inited
         /\ calls'[c].notes = <<"failedRetrievingDisplayPreferences">>
         /\ calls'[c].pc = "done"
         /\ calls'[c].persists = 0
         /\ ~state'.syncing
         /\ state'.LastSync = now]_vars

\* a pull whose fetch got a status other than 200 has returned after time
\* had passed, with its notification, and LastSync is the time of its return
C14_Witness ==
  \E c \in CallIds :
    /\ calls[c].kind = "initState" /\ calls[c].pc = "done"
    /\ calls[c].fetchRes = "other"
    /\ calls[c].notes = <<"failedRetrievingDisplayPreferences">>
    /\ ~calls[c].inited
    /\ now > 0 /\ state.LastSync = now /\ ~state.syncing

\* C15: no step of a push, succeeding or failing, changes the settings
\* store: its keys and values after the step are those before it.
C15_PushKeepsSettings ==
  [][\A c \in CallIds :
       (Step(c) /\ IsPush(calls'[c])) => settings' = settings]_vars

\* C16: when castResponse has returned, the CustomPrefs of the document that
\* was passed to it have, for every key, the string they were received with.
\* Stated for the keys of the default settings, which the key filter that
\* follows castResponse leaves alone.
C16_DecodeKeepsItsInput ==
  coerce.pc = "decoded" =>
    \A key \in (DOMAIN coerce.remote) \cap (DOMAIN settingState) :
      /\ key \in DOMAIN coerce.passed
      /\ coerce.passed[key] = coerce.remote[key]

\* C17: for a key of the default settings whose default is undefined,
\* decoding gives undefined whatever string was received, and for one whose
\* default is null it gives null.
C17_UndefinedAndNullDecoded ==
  coerce.pc = "decoded" =>
    \A key \in (DOMAIN coerce.remote) \cap (DOMAIN settingState) :
      /\ settingState[key] = JUndefined => coerce.decoded[key] = JUndefined
      /\ settingState[key] = JNull => coerce.decoded[key] = JNull

\* call is an authenticated pull or push that has started and not returned
InFlight(call) == call.pc \in {"awaitFetch", "awaitPersist"}

\* C18 as claimed: syncing is true whenever an authenticated pull or push has
\* started and not returned.
C18_SyncingWhileAnyCallInFlight ==
  (\E c \in CallIds : InFlight(calls[c])) => state.syncing

\* C18 as amended: the step in which an authenticated pull or push starts
\* sets syncing to true, the step in which one returns sets it to false,
\* whatever other calls are in flight, and no other step of a call changes it.
C18_SyncingFollowsLatestStartOrReturn ==
  [][\A c \in CallIds :
       (Step(c) /\ calls'[c].kind # "resetState") =>
         state'.syncing =
           IF Returns(c) /\ calls'[c].auth THEN FALSE
           ELSE IF calls'[c].pc = "awaitFetch" THEN TRUE
           ELSE state.syncing]_vars

\* a pull and a push overlapped and the pull has returned: syncing is false
\* while the push awaits the answer to its persist request
C18_Witness ==
  \E c, d \in CallIds :
    /\ calls[c].kind = "initState" /\ calls[c].pc = "done" /\ calls[c].auth
    /\ IsPush(calls[d]) /\ calls[d].pc = "awaitPersist"
    /\ ~state.syncing

\* C19: when the push of an updateSettings call has got status 204, the
\* CustomPrefs it sent are the encoding of the settings store the call was
\* made with, also when a pull returned in between.
C19_PushPersistsSettingsOfTheCall ==
  \A c \in CallIds :
    (calls[c].kind = "updateSettings" /\ calls[c].persistRes = "ok") =>
      calls[c].data.CustomPrefs = encodePrefs(stripStatus(calls[c].called))

\* C20: the step in which a pull gets status 200 and a document without
\* CustomPrefs sends no notification, does not commit settings/INIT_STATE,
\* leaves the settings store unchanged and is the return of the pull, with
\* syncing false.
C20_PullWithoutCustomPrefsSucceeds ==
  [][\A c \in CallIds :
       (Step(c) /\ calls'[c].kind = "initState"
                /\ calls'[c].fetchRes = "ok" /\ ~calls'[c].resp.has) =>
         /\ calls'[c].notes = <<>>
         /\ ~calls'[c].inited
         /\ settings' = settings
         /\ calls'[c].pc = "done"
         /\ ~state'.syncing]_vars
====
